---- MODULE Spec2Model ----
(***************************************************************************)
(* Weight mirroring (flip_weights_and_actions) and logit-level ensembling  *)
(* (get_dist_from_policies) of playground/model_mirror.py.                 *)
(*                                                                         *)
(* Tensors are nested sequences of integers (exact arithmetic), indexed    *)
(* from 1; Python's 0-based action indices are kept as they are and        *)
(* shifted by one where a tensor is subscripted.  Python objects with      *)
(* identity (modules, tensor storages) live in a heap so that aliasing     *)
(* between a policy and its copy is observable.                            *)
(***************************************************************************)
EXTENDS Integers, Sequences, FiniteSets, TLC

VARIABLES heap, policies, lineage, ret

vars == <<heap, policies, lineage, ret>>

----------------------------------------------------------------------------
(* Sizes.  RearrangeC and RearrangeH stand for the c=128, h=8 of the        *)
(* un-flattening pattern, scaled down so that the tensors can be            *)
(* enumerated; every shape below is derived from them.                      *)

RearrangeC == 2
RearrangeH == 2
HiddenDim == 2
NumSeeds == 2
NumObs == 2
MaxPolicies == 3
MaxEnsemble == 2

NumActions == 15
ObsChannels == 3

\* models.MAZE_ACTION_INDICES: action name -> list of logit indices (0-based)
MAZE_ACTION_INDICES ==
    [LEFT  |-> <<0, 1, 2>>,
     DOWN  |-> <<3>>,
     UP    |-> <<5>>,
     RIGHT |-> <<6, 7, 8>>,
     NOOP  |-> <<4, 9, 10, 11, 12, 13, 14>>]

----------------------------------------------------------------------------
(* Tensor primitives                                                        *)

RECURSIVE SumSeq(_)
SumSeq(s) == IF s = <<>> THEN 0 ELSE Head(s) + SumSeq(Tail(s))

RECURSIVE MaxSeq(_)
MaxSeq(s) ==
    IF Len(s) = 1 THEN s[1]
    ELSE LET m == MaxSeq(Tail(s)) IN IF s[1] >= m THEN s[1] ELSE m

\* dims = ((-2,) if flip_y else ()) + ((-1,) if flip_x else ())
flip_dims_onlyfirst(flip_x, flip_y) ==
    IF flip_y THEN {-2} ELSE IF flip_x THEN {-1} ELSE {}

\* dims = (-2,) if flip_y else (-1,)
flip_dims_never_empty(flip_x, flip_y) == IF flip_y THEN {-2} ELSE {-1}

flip_dims(flip_x, flip_y) ==
    (IF flip_y THEN {-2} ELSE {}) \cup (IF flip_x THEN {-1} ELSE {})

\* t.flip on a 4-d tensor along a subset of its two trailing axes; a new tensor
flip(tens, dims) ==
    [a \in 1..Len(tens) |->
      [b \in 1..Len(tens[a]) |->
        LET H == Len(tens[a][b])
            W == Len(tens[a][b][1])
        IN  [r \in 1..H |->
              [c \in 1..W |->
                 tens[a][b][IF -2 \in dims THEN H + 1 - r ELSE r]
                           [IF -1 \in dims THEN W + 1 - c ELSE c]]]]]

\* rearrange(weight, 'd1 (c h w) -> d1 c h w', c=.., h=..): w is inferred,
\* and the call raises (einops' shape error, the ShapeMismatch kind) when the
\* flattened length is not a multiple of c*h
rearrange_accepts(weight, c, h) == Len(weight[1]) % (c * h) = 0

rearrange_unflat(weight, c, h) ==
    LET w == Len(weight[1]) \div (c * h)
    IN  [d \in 1..Len(weight) |->
          [ci \in 1..c |->
            [r \in 1..h |->
              [col \in 1..w |->
                 weight[d][((ci - 1) * h + (r - 1)) * w + col]]]]]

\* 'd1 c h w -> d1 (c w h)': column-major within a channel
rearrange_flat_colmajor(tens) ==
    [d \in 1..Len(tens) |->
      LET c == Len(tens[d])
          h == Len(tens[d][1])
          w == Len(tens[d][1][1])
      IN  [i \in 1..(c * h * w) |->
             tens[d][((i - 1) \div (h * w)) + 1]
                    [((i - 1) % h) + 1]
                    [(((i - 1) \div h) % w) + 1]]]

\* rearrange(x, 'd1 c h w -> d1 (c h w)')
rearrange_flat(tens) ==
    [d \in 1..Len(tens) |->
      LET c == Len(tens[d])
          h == Len(tens[d][1])
          w == Len(tens[d][1][1])
      IN  [i \in 1..(c * h * w) |->
             tens[d][((i - 1) \div (h * w)) + 1]
                    [(((i - 1) \div w) % h) + 1]
                    [((i - 1) % w) + 1]]]

----------------------------------------------------------------------------
(* models.MAZE_ACTION_INDICES is a dict of lists, so tens[indices] is       *)
(* advanced indexing: reading it copies the rows, assigning it writes them  *)
(* one by one.                                                              *)

index_get(tens, idx) == [k \in 1..Len(idx) |-> tens[idx[k] + 1]]

index_put(tens, idx, rows) ==
    [n \in 1..Len(tens) |->
       IF \E k \in 1..Len(idx) : idx[k] + 1 = n
       THEN rows[CHOOSE k \in 1..Len(idx) : idx[k] + 1 = n]
       ELSE tens[n]]

\* the temporary is a view of tens: it already reads the overwritten rows
swap_actions_aliased(tens, actions_to_swap) ==
    LET act1 == actions_to_swap[1]
        act2 == actions_to_swap[2]
        step1 == index_put(tens, MAZE_ACTION_INDICES[act1],
                           index_get(tens, MAZE_ACTION_INDICES[act2]))
        tens_act1 == index_get(step1, MAZE_ACTION_INDICES[act1])
    IN  index_put(step1, MAZE_ACTION_INDICES[act2], tens_act1)

\* swap_actions(tens, actions_to_swap): in place; the value tens holds afterwards
swap_actions(tens, actions_to_swap) ==
    LET act1 == actions_to_swap[1]
        act2 == actions_to_swap[2]
        tens_act1 == index_get(tens, MAZE_ACTION_INDICES[act1])
        step1 == index_put(tens, MAZE_ACTION_INDICES[act1],
                           index_get(tens, MAZE_ACTION_INDICES[act2]))
    IN  index_put(step1, MAZE_ACTION_INDICES[act2], tens_act1)

----------------------------------------------------------------------------
(* Object heap: modules (each naming the storage of its weight and bias)    *)
(* and tensor storages.  A policy is a record of module ids.                *)

ModuleIds(p) == p.convs \o <<p.fc, p.fc_policy>>

\* the storage ids a policy's parameters live in
StorageIds(h, p) ==
    {h.mods[ModuleIds(p)[j]].weight : j \in 1..Len(ModuleIds(p))}
        \cup {h.mods[p.fc_policy].bias}

\* copy.copy-like: the copy names the same module objects
deepcopy_shallow(h, p) == [heap |-> h, policy |-> p]

\* copy.deepcopy(policy): new module objects on new storages, equal values
deepcopy(h, p) ==
    LET ml == ModuleIds(p)
        n == Len(p.convs)
        mbase == Len(h.mods)
        sbase == Len(h.store)
    IN  [heap |->
           [mods |-> h.mods \o
                [j \in 1..(n + 2) |->
                   [weight |-> sbase + j,
                    bias |-> IF j = n + 2 THEN sbase + n + 3 ELSE 0]],
            store |-> h.store \o
                [j \in 1..(n + 2) |-> h.store[h.mods[ml[j]].weight]]
                \o <<h.store[h.mods[p.fc_policy].bias]>>],
         policy |->
           [convs |-> [j \in 1..n |-> mbase + j],
            fc |-> mbase + n + 1,
            fc_policy |-> mbase + n + 2,
            arch |-> p.arch]]

\* mod.<param> = nn.Parameter(value): the module now names a new storage
set_param(h, m, param, value) ==
    [mods |-> [h.mods EXCEPT ![m][param] = Len(h.store) + 1],
     store |-> Append(h.store, value)]

\* for label, mod in policy_flipped.named_modules(): if isinstance(mod, nn.Conv2d)
RECURSIVE flip_conv_kernels(_, _, _)
flip_conv_kernels(h, convs, dims) ==
    IF convs = <<>> THEN h
    ELSE flip_conv_kernels(
            set_param(h, Head(convs), "weight",
                      flip(h.store[h.mods[Head(convs)].weight], dims)),
            Tail(convs), dims)

flip_weights_and_actions(h, policy, flip_x, flip_y) ==
    LET dc == deepcopy(h, policy)
        policy_flipped == dc.policy
        dims == flip_dims(flip_x, flip_y)
        h1 == flip_conv_kernels(dc.heap, policy_flipped.convs, dims)
        fcw == h1.store[h1.mods[policy_flipped.fc].weight]
    IN  IF ~rearrange_accepts(fcw, RearrangeC, RearrangeH)
        THEN [status |-> "raise", kind |-> "ShapeMismatch"]
        ELSE
        LET weight_unflat == rearrange_unflat(fcw, RearrangeC, RearrangeH)
            weight_unflat_flip == flip(weight_unflat, dims)
            weight_flip == rearrange_flat(weight_unflat_flip)
            h2 == set_param(h1, policy_flipped.fc, "weight", weight_flip)
            weight0 == h2.store[h2.mods[policy_flipped.fc_policy].weight]
            bias0 == h2.store[h2.mods[policy_flipped.fc_policy].bias]
            weight1 == IF flip_x THEN swap_actions(weight0, <<"LEFT", "RIGHT">>)
                       ELSE weight0
            bias1 == IF flip_x THEN swap_actions(bias0, <<"LEFT", "RIGHT">>)
                     ELSE bias0
            weight2 == IF flip_y THEN swap_actions(weight1, <<"UP", "DOWN">>)
                       ELSE weight1
            bias2 == IF flip_y THEN swap_actions(bias1, <<"UP", "DOWN">>)
                     ELSE bias1
            h3 == set_param(h2, policy_flipped.fc_policy, "weight", weight2)
            h4 == set_param(h3, policy_flipped.fc_policy, "bias", bias2)
        IN  [status |-> "ok", heap |-> h4, policy |-> policy_flipped]

----------------------------------------------------------------------------
(* The Policy model: conv layers (stride 1, symmetric zero padding), a      *)
(* flatten in (channel, row, column) order, embedder.fc, then fc_policy     *)
(* with a bias; the policy's distribution is Categorical(log_softmax).      *)

\* an architecture: kernel size, padding, output channels of each conv layer,
\* height and width of the last feature map
TargetArch ==
    [k |-> 3, pad |-> 1, chans |-> <<RearrangeC>>,
     fh |-> RearrangeH, fw |-> RearrangeH]

DeepArch ==
    [k |-> 2, pad |-> 0, chans |-> <<1, RearrangeC>>,
     fh |-> RearrangeH, fw |-> RearrangeH + 1]

\* same flattened length as the target, other height and width
WideArch ==
    [k |-> 3, pad |-> 1, chans |-> <<RearrangeC>>,
     fh |-> 1, fw |-> 2 * RearrangeH]

\* flattened length no multiple of RearrangeC * RearrangeH
OddArch ==
    [k |-> 3, pad |-> 1, chans |-> <<RearrangeC>>,
     fh |-> 1, fw |-> 2 * RearrangeH + 1]

Archs == {TargetArch, DeepArch, WideArch, OddArch}

LastChannels(arch) == arch.chans[Len(arch.chans)]
FlatDim(arch) == LastChannels(arch) * arch.fh * arch.fw
Shrink(arch) == Len(arch.chans) * (arch.k - 1 - 2 * arch.pad)
ObsHeight(arch) == arch.fh + Shrink(arch)
ObsWidth(arch) == arch.fw + Shrink(arch)

\* small integer weights, different at every position
Gen(seed, salt, n) ==
    ((n * n * n + seed * n * n + salt * n + seed * salt + seed) % 7) - 3

ConvKernel(arch, seed, l) ==
    LET inC == IF l = 1 THEN ObsChannels ELSE arch.chans[l - 1]
        k == arch.k
    IN  [o \in 1..arch.chans[l] |->
          [i \in 1..inC |->
            [a \in 1..k |->
              [b \in 1..k |->
                 Gen(seed, l, (((o - 1) * inC + (i - 1)) * k + (a - 1)) * k + b)]]]]

FcWeight(arch, seed) ==
    [d \in 1..HiddenDim |->
      [i \in 1..FlatDim(arch) |-> Gen(seed, 11, (d - 1) * FlatDim(arch) + i)]]

FcPolicyWeight(seed) ==
    [a \in 1..NumActions |->
      [d \in 1..HiddenDim |-> Gen(seed, 12, (a - 1) * HiddenDim + d)]]

FcPolicyBias(seed) == [a \in 1..NumActions |-> Gen(seed, 13, a)]

\* models.load_policy: a heap holding one policy, and that policy
load_policy(arch, seed) ==
    LET n == Len(arch.chans)
    IN  [heap |->
           [mods |-> [j \in 1..(n + 2) |->
                        [weight |-> j, bias |-> IF j = n + 2 THEN n + 3 ELSE 0]],
            store |-> [l \in 1..n |-> ConvKernel(arch, seed, l)]
                      \o <<FcWeight(arch, seed), FcPolicyWeight(seed),
                            FcPolicyBias(seed)>>],
         policy |-> [convs |-> [j \in 1..n |-> j], fc |-> n + 1,
                     fc_policy |-> n + 2, arch |-> arch]]

\* an observation: ObsChannels x height x width, pixel values 0..2
Observation(arch, oseed) ==
    [ch \in 1..ObsChannels |->
      [r \in 1..ObsHeight(arch) |->
        [c \in 1..ObsWidth(arch) |->
           (ch * ch + oseed * r * r + 2 * c + oseed * r * c + oseed) % 3]]]

Observations(arch) == {Observation(arch, oseed) : oseed \in 1..NumObs}

\* the observation mirrored left-right (flip_x) and/or up-down (flip_y)
Mirror(obs, flip_x, flip_y) ==
    [ch \in 1..Len(obs) |->
      LET H == Len(obs[ch])
          W == Len(obs[ch][1])
      IN  [r \in 1..H |->
            [c \in 1..W |->
               obs[ch][IF flip_y THEN H + 1 - r ELSE r]
                      [IF flip_x THEN W + 1 - c ELSE c]]]]

\* the parameter values of a policy
Params(h, p) ==
    [convs |-> [j \in 1..Len(p.convs) |-> h.store[h.mods[p.convs[j]].weight]],
     fc |-> h.store[h.mods[p.fc].weight],
     fc_policy_weight |-> h.store[h.mods[p.fc_policy].weight],
     fc_policy_bias |-> h.store[h.mods[p.fc_policy].bias],
     pad |-> p.arch.pad]

conv2d(x, weight, pad) ==
    LET inC == Len(x)
        H == Len(x[1])
        W == Len(x[1][1])
        k == Len(weight[1][1])
        px(i, r, c) == IF r >= 1 /\ r <= H /\ c >= 1 /\ c <= W
                       THEN x[i][r][c] ELSE 0
    IN  [o \in 1..Len(weight) |->
          [r \in 1..(H + 2 * pad - k + 1) |->
            [c \in 1..(W + 2 * pad - k + 1) |->
               SumSeq([i \in 1..inC |->
                 SumSeq([a \in 1..k |->
                   SumSeq([b \in 1..k |->
                     weight[o][i][a][b]
                       * px(i, r + a - 1 - pad, c + b - 1 - pad)])])])]]]

RECURSIVE conv_stack(_, _, _)
conv_stack(x, kernels, pad) ==
    IF kernels = <<>> THEN x
    ELSE conv_stack(conv2d(x, Head(kernels), pad), Tail(kernels), pad)

\* position i of the flattened map is (i / (h*w), (i / w) mod h, i mod w)
flatten(x) ==
    LET h == Len(x[1])
        w == Len(x[1][1])
    IN  [i \in 1..(Len(x) * h * w) |->
           x[((i - 1) \div (h * w)) + 1][(((i - 1) \div w) % h) + 1][((i - 1) % w) + 1]]

linear(weight, x) ==
    [d \in 1..Len(weight) |-> SumSeq([i \in 1..Len(x) |-> weight[d][i] * x[i]])]

\* policy.embedder(obs)
embedder(pv, obs) == linear(pv.fc, flatten(conv_stack(obs, pv.convs, pv.pad)))

\* policy.fc_policy(hidden)
fc_policy(pv, hidden) ==
    LET wx == linear(pv.fc_policy_weight, hidden)
    IN  [a \in 1..NumActions |-> wx[a] + pv.fc_policy_bias[a]]

Logits(pv, obs) == fc_policy(pv, embedder(pv, obs))

----------------------------------------------------------------------------
(* Distributions.  Logits are exact rationals num/den (the mean of integer  *)
(* logit vectors).  log_softmax subtracts the same number from every logit; *)
(* two logit vectors give the same distribution exactly when they differ by *)
(* a constant, so a distribution is kept as the logits shifted to maximum 0 *)
(* and reduced to lowest terms: equal records, equal distributions.         *)

Abs(n) == IF n < 0 THEN -n ELSE n

RECURSIVE Gcd(_, _)
Gcd(a, b) == IF b = 0 THEN a ELSE Gcd(b, a % b)

RECURSIVE GcdSeq(_)
GcdSeq(s) == IF s = <<>> THEN 0 ELSE Gcd(Abs(Head(s)), GcdSeq(Tail(s)))

\* F.log_softmax(logits, dim=1)
log_softmax(l) ==
    LET m == MaxSeq(l.num)
    IN  [num |-> [a \in 1..Len(l.num) |-> l.num[a] - m], den |-> l.den]

\* Categorical(logits=...)
Categorical(l) ==
    LET s == log_softmax(l)
        g == Gcd(s.den, GcdSeq(s.num))
    IN  [num |-> [a \in 1..Len(s.num) |-> s.num[a] \div g], den |-> s.den \div g]

\* dist.mode: the first action of greatest probability (0-based)
mode(dist) ==
    (CHOOSE a \in 1..Len(dist.num) :
        /\ \A b \in 1..Len(dist.num) : dist.num[b] <= dist.num[a]
        /\ \A b \in 1..(a - 1) : dist.num[b] < dist.num[a]) - 1

\* dist.sample(): every action has positive probability
SampleSupport(dist) == 0..(Len(dist.num) - 1)

\* plcy(obs): the policy's own forward pass
policy_forward(pv, obs) ==
    Categorical(log_softmax([num |-> Logits(pv, obs), den |-> 1]))

\* stacks an empty list to an empty tensor
stack_accepts_empty(logits_list) == TRUE

\* rearrange(logits_list, 'p b a -> p b a'): stacks the list; einops raises on
\* an empty list (there is no dedicated exception: the kind EmptyEnsemble names
\* this condition)
stack_accepts(logits_list) == Len(logits_list) > 0

RECURSIVE SumVectors(_)
SumVectors(vs) ==
    IF Len(vs) = 0 THEN [a \in 1..NumActions |-> 0]
    ELSE IF Len(vs) = 1 THEN vs[1]
    ELSE LET rest == SumVectors(Tail(vs))
         IN  [a \in 1..Len(rest) |-> vs[1][a] + rest[a]]

\* divides by one more than the number of policies
mean_axis0_offbyone(logits_list) ==
    [num |-> SumVectors(logits_list), den |-> Len(logits_list) + 1]

\* takes the first policy's logits instead of the mean
mean_axis0_first(logits_list) == [num |-> logits_list[1], den |-> 1]

\* .mean(axis=0); the stacking above it never hands it an empty list
mean_axis0(logits_list) ==
    [num |-> SumVectors(logits_list),
     den |-> IF Len(logits_list) = 0 THEN 1 ELSE Len(logits_list)]

get_dist_from_policies(h, pols, obs_t) ==
    LET logits_list == [j \in 1..Len(pols) |-> Logits(Params(h, pols[j]), obs_t)]
    IN  IF ~stack_accepts(logits_list)
        THEN [status |-> "raise", kind |-> "EmptyEnsemble"]
        ELSE [status |-> "ok",
              dist |-> Categorical(log_softmax(mean_axis0(logits_list)))]

----------------------------------------------------------------------------
(* State: the heap, the policies built so far, for each the call that made  *)
(* it (lineage), and the outcome of the call that has just returned (ret),  *)
(* which the caller takes (Return) before it calls again.                   *)

NoCall == [op |-> "none", status |-> "ok"]

Loaded == [parent |-> 0, flip_x |-> FALSE, flip_y |-> FALSE]

\* policy_normal = models.load_policy(...)
Init ==
    \E arch \in Archs, seed \in 1..NumSeeds :
        LET l == load_policy(arch, seed)
        IN  /\ heap = l.heap
            /\ policies = <<l.policy>>
            /\ lineage = <<Loaded>>
            /\ ret = NoCall

\* a call flip_weights_and_actions(policies[i], flip_x, flip_y)
Flip ==
    /\ ret = NoCall
    /\ Len(policies) < MaxPolicies
    /\ \E i \in 1..Len(policies), flip_x \in BOOLEAN, flip_y \in BOOLEAN :
         \E r \in {flip_weights_and_actions(heap, policies[i], flip_x, flip_y)} :
             IF r.status = "ok"
             THEN /\ heap' = r.heap
                  /\ policies' = Append(policies, r.policy)
                  /\ lineage' = Append(lineage,
                        [parent |-> i, flip_x |-> flip_x, flip_y |-> flip_y])
                  /\ ret' = [op |-> "flip", src |-> i, flip_x |-> flip_x,
                             flip_y |-> flip_y, status |-> "ok", kind |-> "",
                             out |-> Len(policies) + 1]
             ELSE /\ ret' = [op |-> "flip", src |-> i, flip_x |-> flip_x,
                             flip_y |-> flip_y, status |-> "raise",
                             kind |-> r.kind, out |-> 0]
                  /\ UNCHANGED <<heap, policies, lineage>>

\* the caller has taken the result
Return ==
    /\ ret # NoCall
    /\ ret' = NoCall
    /\ UNCHANGED <<heap, policies, lineage>>

Next == Flip \/ Return

Spec == Init /\ [][Next]_vars

----------------------------------------------------------------------------
(* The ensemble cells: policy_normal and the four flipped copies of         *)
(* policies_all_dirs are built first, then distributions are taken from     *)
(* lists of them.                                                           *)

AllDirs == << <<TRUE, FALSE>>, <<FALSE, FALSE>>, <<TRUE, TRUE>>, <<FALSE, TRUE>> >>

RECURSIVE build_all_dirs(_, _, _)
build_all_dirs(h, pols, n) ==
    IF n > Len(AllDirs) THEN [heap |-> h, policies |-> pols]
    ELSE LET r == flip_weights_and_actions(h, pols[1], AllDirs[n][1], AllDirs[n][2])
         IN  build_all_dirs(r.heap, Append(pols, r.policy), n + 1)

InitEnsemble ==
    \E arch \in {TargetArch}, seed \in 1..NumSeeds :
        LET l == load_policy(arch, seed)
            b == build_all_dirs(l.heap, <<l.policy>>, 1)
        IN  /\ heap = b.heap
            /\ policies = b.policies
            /\ lineage = <<Loaded>> \o
                  [n \in 1..Len(AllDirs) |->
                     [parent |-> 1, flip_x |-> AllDirs[n][1], flip_y |-> AllDirs[n][2]]]
            /\ ret = NoCall

\* the lists of at most MaxEnsemble of the policies built
Ensembles == UNION {[1..m -> 1..Len(policies)] : m \in 0..MaxEnsemble}

PoolObservations == Observations(policies[1].arch)

Picked(idx) == [j \in 1..Len(idx) |-> policies[idx[j]]]

\* get_forward_multi(policies)(obs_t): the distribution alone
GetDist ==
    /\ ret = NoCall
    /\ \E idx \in Ensembles, obs \in PoolObservations :
        \E r \in {get_dist_from_policies(heap, Picked(idx), obs)} :
            /\ ret' = IF r.status = "ok"
                      THEN [op |-> "get_dist", pols |-> idx, obs |-> obs,
                            deterministic |-> FALSE, status |-> "ok", kind |-> "",
                            dist |-> r.dist, act |-> -1]
                      ELSE [op |-> "get_dist", pols |-> idx, obs |-> obs,
                            deterministic |-> FALSE, status |-> "raise",
                            kind |-> r.kind, dist |-> <<>>, act |-> -1]
            /\ UNCHANGED <<heap, policies, lineage>>

\* get_predict_multi(policies)(obs, deterministic)
PredictMulti ==
    /\ ret = NoCall
    /\ \E idx \in Ensembles, obs \in PoolObservations, deterministic \in BOOLEAN :
        \E r \in {get_dist_from_policies(heap, Picked(idx), obs)} :
            /\ IF r.status = "ok"
               THEN \E act \in (IF deterministic THEN {mode(r.dist)}
                                 ELSE SampleSupport(r.dist)) :
                      ret' = [op |-> "predict_multi", pols |-> idx, obs |-> obs,
                              deterministic |-> deterministic, status |-> "ok",
                              kind |-> "", dist |-> r.dist, act |-> act]
               ELSE ret' = [op |-> "predict_multi", pols |-> idx, obs |-> obs,
                            deterministic |-> deterministic, status |-> "raise",
                            kind |-> r.kind, dist |-> <<>>, act |-> -1]
            /\ UNCHANGED <<heap, policies, lineage>>

\* get_predict(plcy)(obs, deterministic)
Predict ==
    /\ ret = NoCall
    /\ \E i \in 1..Len(policies), obs \in PoolObservations, deterministic \in BOOLEAN :
        \E dist \in {policy_forward(Params(heap, policies[i]), obs)} :
            /\ \E act \in (IF deterministic THEN {mode(dist)}
                             ELSE SampleSupport(dist)) :
                 ret' = [op |-> "predict", pols |-> <<i>>, obs |-> obs,
                         deterministic |-> deterministic, status |-> "ok",
                         kind |-> "", dist |-> dist, act |-> act]
            /\ UNCHANGED <<heap, policies, lineage>>

NextEnsemble == GetDist \/ PredictMulti \/ Predict \/ Return

SpecEnsemble == InitEnsemble /\ [][NextEnsemble]_vars

----------------------------------------------------------------------------
(* Vocabulary of the properties                                             *)

PV(i) == Params(heap, policies[i])

ObsOf(i) == Observations(policies[i].arch)

FlipReturned == ret.op = "flip" /\ ret.status = "ok"

EnsembleCalled == ret.op \in {"get_dist", "predict_multi"}

\* the action a mirrored agent means by action a (0-based)
Exchanged(a, n1, n2) ==
    LET i1 == MAZE_ACTION_INDICES[n1]
        i2 == MAZE_ACTION_INDICES[n2]
    IN  IF \E k \in 1..Len(i1) : i1[k] = a
        THEN i2[CHOOSE k \in 1..Len(i1) : i1[k] = a]
        ELSE IF \E k \in 1..Len(i2) : i2[k] = a
        THEN i1[CHOOSE k \in 1..Len(i2) : i2[k] = a]
        ELSE a

MirrorAction(a, flip_x, flip_y) ==
    LET a1 == IF flip_x THEN Exchanged(a, "LEFT", "RIGHT") ELSE a
    IN  IF flip_y THEN Exchanged(a1, "UP", "DOWN") ELSE a1

\* the returned policy on obs gives the source policy's probabilities on the
\* mirrored obs, with the directional actions exchanged
MirrorsSource ==
    \A obs \in ObsOf(ret.src) :
        LET q == policy_forward(PV(ret.out), obs)
            p == policy_forward(PV(ret.src), Mirror(obs, ret.flip_x, ret.flip_y))
        IN  /\ q.den = p.den
            /\ \A a \in 0..(NumActions - 1) :
                  q.num[a + 1] = p.num[MirrorAction(a, ret.flip_x, ret.flip_y) + 1]

\* the feature map the un-flattening assumes: RearrangeC x RearrangeH x AssumedW
AssumedW == RearrangeH

AssumedShape(arch) ==
    /\ LastChannels(arch) = RearrangeC
    /\ arch.fh = RearrangeH
    /\ arch.fw = AssumedW

\* C1: the policy a call returns behaves, on every observation, as the source
\* policy does on the mirrored observation with LEFT/RIGHT and/or UP/DOWN
\* exchanged -- for every source policy of the Policy model.
C1_MirrorEquivalence == FlipReturned => MirrorsSource

\* The same for the source policies whose last feature map has the channel
\* count and height the un-flattening assumes (any width).
MirrorEquivalenceOnAssumedLayout ==
    (/\ FlipReturned
     /\ LastChannels(policies[ret.src].arch) = RearrangeC
     /\ policies[ret.src].arch.fh = RearrangeH) => MirrorsSource

RowsAt(tens, name) == index_get(tens, MAZE_ACTION_INDICES[name])

\* rows/entries n1 and n2 of the result are those of the source, exchanged
\* when sw and in place otherwise
PairPlaced(tens, tens0, n1, n2, sw) ==
    /\ RowsAt(tens, n1) = RowsAt(tens0, IF sw THEN n2 ELSE n1)
    /\ RowsAt(tens, n2) = RowsAt(tens0, IF sw THEN n1 ELSE n2)

HeadPlaced(tens, tens0, flip_x, flip_y) ==
    /\ PairPlaced(tens, tens0, "LEFT", "RIGHT", flip_x)
    /\ PairPlaced(tens, tens0, "UP", "DOWN", flip_y)
    /\ RowsAt(tens, "NOOP") = RowsAt(tens0, "NOOP")

\* C2: in the returned policy the fc_policy weight rows and bias entries at the
\* LEFT and RIGHT indices are the source's exchanged when flip_x (in place
\* otherwise), those at UP and DOWN exchanged when flip_y (in place otherwise),
\* and every other row/entry is the source's.
C2_HeadRowsSwapped ==
    FlipReturned =>
        /\ HeadPlaced(PV(ret.out).fc_policy_weight, PV(ret.src).fc_policy_weight,
                      ret.flip_x, ret.flip_y)
        /\ HeadPlaced(PV(ret.out).fc_policy_bias, PV(ret.src).fc_policy_bias,
                      ret.flip_x, ret.flip_y)

\* a horizontal-only flip of a head whose LEFT and RIGHT rows and entries differ
C2_Witness ==
    /\ FlipReturned /\ ret.flip_x /\ ~ret.flip_y
    /\ RowsAt(PV(ret.src).fc_policy_weight, "LEFT")
         # RowsAt(PV(ret.src).fc_policy_weight, "RIGHT")
    /\ RowsAt(PV(ret.src).fc_policy_bias, "LEFT")
         # RowsAt(PV(ret.src).fc_policy_bias, "RIGHT")
    /\ RowsAt(PV(ret.out).fc_policy_weight, "LEFT")
         = RowsAt(PV(ret.src).fc_policy_weight, "RIGHT")

SameFlags(l, r) == l.flip_x = r.flip_x /\ l.flip_y = r.flip_y

SameBehaviour(pv1, pv2, obss) ==
    \A obs \in obss : policy_forward(pv1, obs) = policy_forward(pv2, obs)

\* the call that has returned flipped a policy that was itself made by a flip
SecondFlip == FlipReturned /\ lineage[ret.src].parent # 0

\* C3: flipping a flipped policy again with the same flags gives a policy with
\* the output distribution of the original on every observation.
C3_DoubleFlip ==
    (SecondFlip /\ SameFlags(lineage[ret.src], ret)) =>
        SameBehaviour(PV(ret.out), PV(lineage[ret.src].parent), ObsOf(ret.src))

\* a second flip with the same flags, at least one set, whose intermediate
\* policy does not behave as the original
C3_Witness ==
    /\ SecondFlip /\ SameFlags(lineage[ret.src], ret)
    /\ ret.flip_x \/ ret.flip_y
    /\ ~SameBehaviour(PV(ret.src), PV(lineage[ret.src].parent), ObsOf(ret.src))

\* one flag set in each of the two calls, a different one
TwoSingleAxes(l, r) ==
    /\ l.flip_x # l.flip_y
    /\ r.flip_x = l.flip_y
    /\ r.flip_y = l.flip_x

\* flip_weights_and_actions(policy, True, True) of the original, as a value
BothAxes(g) ==
    LET r == flip_weights_and_actions(heap, policies[g], TRUE, TRUE)
    IN  Params(r.heap, r.policy)

\* C4: a horizontal-only and a vertical-only flip, one after the other in
\* either order, give a policy with the output distribution, on every
\* observation, of the single call with both flags.
C4_AxesCompose ==
    (SecondFlip /\ TwoSingleAxes(lineage[ret.src], ret)) =>
        SameBehaviour(PV(ret.out), BothAxes(lineage[ret.src].parent), ObsOf(ret.src))

\* the two single-axis flips done, vertical first, and the result behaves
\* neither as the original nor as the intermediate policy
C4_Witness ==
    /\ SecondFlip /\ TwoSingleAxes(lineage[ret.src], ret) /\ ret.flip_x
    /\ ~SameBehaviour(PV(ret.out), PV(ret.src), ObsOf(ret.src))
    /\ ~SameBehaviour(PV(ret.out), PV(lineage[ret.src].parent), ObsOf(ret.src))

\* no module object and no tensor storage belongs to two policies
NoSharing(h, ps) ==
    \A i \in 1..Len(ps), j \in 1..Len(ps) :
        i < j =>
          /\ StorageIds(h, ps[i]) \cap StorageIds(h, ps[j]) = {}
          /\ {ModuleIds(ps[i])[n] : n \in 1..Len(ModuleIds(ps[i]))}
               \cap {ModuleIds(ps[j])[n] : n \in 1..Len(ModuleIds(ps[j]))} = {}

\* C5: a call leaves every parameter tensor of every existing policy (the
\* source among them) as it was, and afterwards no two policies share a module
\* or a parameter storage.
C5_SourceUntouchedNoAliasing ==
    [][/\ \A i \in 1..Len(policies) :
            Params(heap', policies'[i]) = Params(heap, policies[i])
       /\ NoSharing(heap', policies')]_vars

\* a call returned a policy whose kernels, fc weight and head all differ from
\* the source's
C5_Witness ==
    /\ FlipReturned
    /\ PV(ret.out).convs # PV(ret.src).convs
    /\ PV(ret.out).fc # PV(ret.src).fc
    /\ PV(ret.out).fc_policy_weight # PV(ret.src).fc_policy_weight

\* C6: with both flags false the returned policy's parameter tensors (conv
\* kernels, embedder.fc weight, fc_policy weight and bias) equal the source's.
C6_NoOpCopy ==
    (FlipReturned /\ ~ret.flip_x /\ ~ret.flip_y) => PV(ret.out) = PV(ret.src)

\* a call with both flags false on a policy that a horizontal flip changes
C6_Witness ==
    /\ FlipReturned /\ ~ret.flip_x /\ ~ret.flip_y
    /\ flip(PV(ret.src).convs[1], {-1}) # PV(ret.src).convs[1]
    /\ ret.out # ret.src

\* the orders in which a list of n policies can be given
Orders(n) == {f \in [1..n -> 1..n] : \A i \in 1..n : \E j \in 1..n : f[j] = i}

Reordered(idx, f) == [j \in 1..Len(idx) |-> idx[f[j]]]

\* C7: the distribution returned for a list of policies and an observation is
\* the one returned for every reordering of the list.
C7_OrderIndependent ==
    (ret.op = "get_dist" /\ ret.status = "ok") =>
        \A f \in Orders(Len(ret.pols)) :
            get_dist_from_policies(heap, Picked(Reordered(ret.pols, f)), ret.obs)
                = [status |-> "ok", dist |-> ret.dist]

\* an ensemble of two policies that alone give different distributions, neither
\* of them the ensemble's
C7_Witness ==
    /\ ret.op = "get_dist" /\ ret.status = "ok" /\ Len(ret.pols) = 2
    /\ policy_forward(PV(ret.pols[1]), ret.obs)
         # policy_forward(PV(ret.pols[2]), ret.obs)
    /\ ret.dist # policy_forward(PV(ret.pols[1]), ret.obs)
    /\ ret.dist # policy_forward(PV(ret.pols[2]), ret.obs)

\* C8: for a list of one policy the returned distribution is the policy's own
\* (log_softmax of its fc_policy(embedder(obs)) logits), and the deterministic
\* action of get_predict_multi is the mode get_predict takes from it.
C8_SingleIsPolicy ==
    (EnsembleCalled /\ ret.status = "ok" /\ Len(ret.pols) = 1) =>
        LET own == policy_forward(PV(ret.pols[1]), ret.obs)
        IN  /\ ret.dist = own
            /\ (ret.op = "predict_multi" /\ ret.deterministic) => ret.act = mode(own)

\* a deterministic get_predict_multi call on one policy whose distribution is
\* not uniform and whose mode is not the first action
C8_Witness ==
    /\ ret.op = "predict_multi" /\ ret.status = "ok" /\ Len(ret.pols) = 1
    /\ ret.deterministic
    /\ \E a \in 1..NumActions : ret.dist.num[a] # 0
    /\ ret.act # 0

\* C9: for an empty list the call raises (kind EmptyEnsemble) and returns no
\* distribution.
C9_EmptyRaises ==
    (EnsembleCalled /\ ret.pols = <<>>) =>
        /\ ret.status = "raise"
        /\ ret.kind = "EmptyEnsemble"
        /\ ret.dist = <<>>

\* get_dist_from_policies was called with an empty list and has raised
C9_Witness ==
    /\ ret.op = "get_dist" /\ ret.pols = <<>> /\ ret.status = "raise"

\* C10: a call on a policy whose last feature map is not of the assumed shape
\* (channels, height or width) raises ShapeMismatch and returns no policy.
C10_ShapeChecked ==
    (ret.op = "flip" /\ ~AssumedShape(policies[ret.src].arch)) =>
        /\ ret.status = "raise"
        /\ ret.kind = "ShapeMismatch"
        /\ ret.out = 0

====
